---- MODULE Spec2Model ----
(***************************************************************************)
(* Model of the barbers router (src/migrate.js, lines 37-375): the demo    *)
(* fixtures, addDemoReservation / getDemoReservations, and the three GET   *)
(* handlers, together with the two helpers the router imports from         *)
(* ../utils/timeSlots.js (generateTimeSlots, isDateInPast).                *)
(*                                                                         *)
(* JavaScript strings are modelled as sequences of one-character strings,  *)
(* so that parsing and formatting of HH:MM and YYYY-MM-DD are real         *)
(* conversions.  The value `undefined` is the one-element sequence         *)
(* <<"undefined">>.                                                        *)
(***************************************************************************)
EXTENDS Integers, Sequences, FiniteSets, TLC

VARIABLES
    isDemoMode,        \* const isDemoMode = !process.env.DATABASE_URL
    demoBarbers,       \* const demoBarbers = [...]
    demoReservations,  \* let demoReservations = [...]
    dbBarbers,         \* the barbers table joined with users (external store)
    dbReservations,    \* the reservations table (external store)
    req,               \* the operation that ran last, with its inputs
    res,               \* the response that operation sent
    gen                \* the generateTimeSlots call that operation made, if any

vars == <<isDemoMode, demoBarbers, demoReservations, dbBarbers, dbReservations,
          req, res, gen>>

----------------------------------------------------------------------------
(* Bounds of the model *)

\* how many entries addDemoReservation may add to the two fixture entries
MaxAdded == 2

\* how many rows the reservations table of DbSpec may hold
MaxMarkers == 2

----------------------------------------------------------------------------
(* Strings *)

Undefined == <<"undefined">>

Digit == <<"0", "1", "2", "3", "4", "5", "6", "7", "8", "9">>

IsDigit(ch) == \E i \in 1..10 : Digit[i] = ch

DigitVal(ch) == (CHOOSE i \in 1..10 : Digit[i] = ch) - 1

Str2(n) == <<Digit[(n \div 10) + 1], Digit[(n % 10) + 1]>>

Str4(n) == Str2(n \div 100) \o Str2(n % 100)

\* the literal 'HH:MM' and 'YYYY-MM-DD' strings of the fixtures and inputs
TimeLit(h, m) == Str2(h) \o <<":">> \o Str2(m)

DateLit(y, m, d) == Str4(y) \o <<"-">> \o Str2(m) \o <<"-">> \o Str2(d)

\* !x for a query parameter: undefined and '' are falsy
Falsy(s) == s = Undefined \/ s = <<>>

ToLowerChar(ch) ==
    CASE ch = "J" -> "j" [] ch = "S" -> "s" [] ch = "M" -> "m"
      [] ch = "D" -> "d" [] ch = "W" -> "w" [] ch = "U" -> "u"
      [] ch = "C" -> "c" [] ch = "B" -> "b" [] ch = "O" -> "o"
      [] ch = "H" -> "h" [] ch = "N" -> "n"
      [] OTHER -> ch

toLowerCase(s) == [i \in 1..Len(s) |-> ToLowerChar(s[i])]

includes(s, sub) ==
    \E i \in 0..(Len(s) - Len(sub)) : SubSeq(s, i + 1, i + Len(sub)) = sub

\* Joi.string().pattern(/^\d{4}-\d{2}-\d{2}$/).validate(date) has no error
MatchesDatePattern(s) ==
    /\ Len(s) = 10
    /\ \A i \in 1..10 : IF i \in {5, 8} THEN s[i] = "-" ELSE IsDigit(s[i])

----------------------------------------------------------------------------
(* ../utils/timeSlots.js *)

\* 'HH:MM' -> minutes since midnight
parseTime(s) ==
    (10 * DigitVal(s[1]) + DigitVal(s[2])) * 60 + 10 * DigitVal(s[4]) + DigitVal(s[5])

\* minutes since midnight -> 'HH:MM'
formatTime(t) == Str2(t \div 60) \o <<":">> \o Str2(t % 60)

\* some entry of existingReservations has this time string
isReserved(timeStr, existingReservations) ==
    \E i \in 1..Len(existingReservations) : existingReservations[i].time = timeStr

RECURSIVE slotLoop(_, _, _, _)
slotLoop(t, closeMin, durationMinutes, existingReservations) ==
    IF t + durationMinutes <= closeMin
    THEN <<[time |-> formatTime(t),
            available |-> ~isReserved(formatTime(t), existingReservations)]>>
         \o slotLoop(t + durationMinutes, closeMin, durationMinutes, existingReservations)
    ELSE <<>>

\* the stepping loop never ends: the step does not advance and the test stays true
diverges(openTime, closeTime, durationMinutes) ==
    /\ durationMinutes <= 0
    /\ parseTime(openTime) + durationMinutes <= parseTime(closeTime)

generateTimeSlots(openTime, closeTime, durationMinutes, existingReservations) ==
    slotLoop(parseTime(openTime), parseTime(closeTime), durationMinutes,
             existingReservations)

\* 'YYYY-MM-DD' -> a number ordered as the calendar is
parseDate(s) ==
    (1000 * DigitVal(s[1]) + 100 * DigitVal(s[2]) + 10 * DigitVal(s[3]) + DigitVal(s[4])) * 10000
    + (10 * DigitVal(s[6]) + DigitVal(s[7])) * 100
    + (10 * DigitVal(s[9]) + DigitVal(s[10]))

\* now is the current calendar day, as a 'YYYY-MM-DD' string
isDateInPast(dateString, now) == parseDate(dateString) < parseDate(now)

----------------------------------------------------------------------------
(* Fixtures of the router *)

DemoBarbersFixture ==
    << [id |-> "barber-1", userId |-> "user-1",
        fullName |-> <<"J", "o", "h", "n", " ", "S", "m", "i", "t", "h">>,
        manualLocation |-> <<"D", "o", "w", "n", "t", "o", "w", "n", " ", "B", "a", "r", "b", "e", "r", "s", "h", "o", "p">>,
        haircutDuration |-> 30, openTime |-> TimeLit(9, 0), closeTime |-> TimeLit(18, 0)],
       [id |-> "barber-2", userId |-> "user-2",
        fullName |-> <<"M", "i", "k", "e", " ", "J", "o", "h", "n", "s", "o", "n">>,
        manualLocation |-> <<"U", "p", "t", "o", "w", "n", " ", "C", "u", "t", "s">>,
        haircutDuration |-> 45, openTime |-> TimeLit(8, 0), closeTime |-> TimeLit(19, 0)],
       [id |-> "barber-3", userId |-> "user-3",
        fullName |-> <<"D", "a", "v", "i", "d", " ", "W", "i", "l", "s", "o", "n">>,
        manualLocation |-> <<"D", "o", "w", "n", "t", "o", "w", "n", " ", "B", "a", "r", "b", "e", "r", "s", "h", "o", "p">>,
        haircutDuration |-> 30, openTime |-> TimeLit(10, 0), closeTime |-> TimeLit(17, 0)] >>

DemoReservationsFixture ==
    << [id |-> "res-1", barberId |-> "barber-1", clientId |-> "user-1752373590610",
        date |-> DateLit(2024, 1, 15), time |-> TimeLit(10, 0)],
       [id |-> "res-2", barberId |-> "barber-1", clientId |-> "user-1752373590610",
        date |-> DateLit(2024, 1, 15), time |-> TimeLit(14, 0)] >>

\* rows of barbers joined with users that the store holds under Spec and DateSpec
DbBarbersSeed ==
    << [id |-> "db-1", userId |-> "u-1", fullName |-> <<"A", "n", "n">>, manualLocation |-> <<"U", "p", "t", "o", "w", "n">>,
       haircutDuration |-> 45, openTime |-> TimeLit(10, 0), closeTime |-> TimeLit(12, 0)],
      [id |-> "db-2", userId |-> "u-2", fullName |-> <<"B", "o", "b">>, manualLocation |-> <<"D", "o", "w", "n", "t", "o", "w", "n">>,
       haircutDuration |-> 0, openTime |-> TimeLit(9, 0), closeTime |-> TimeLit(12, 0)],
      [id |-> "db-3", userId |-> "u-3", fullName |-> <<"C", "y">>, manualLocation |-> <<"U", "p", "t", "o", "w", "n">>,
       haircutDuration |-> 30, openTime |-> TimeLit(12, 0), closeTime |-> TimeLit(10, 0)] >>

\* rows of reservations that the store holds under Spec and DateSpec
DbReservationsSeed ==
    << [id |-> "r-2", barberId |-> "db-1", date |-> DateLit(2024, 1, 16), time |-> TimeLit(10, 45)],
       [id |-> "r-1", barberId |-> "db-1", date |-> DateLit(2024, 1, 15), time |-> TimeLit(10, 0)],
       [id |-> "r-3", barberId |-> "db-3", date |-> DateLit(2024, 1, 16), time |-> TimeLit(10, 0)] >>

----------------------------------------------------------------------------
(* Requests and responses *)

NoReservation ==
    [id |-> "", barberId |-> "", clientId |-> "", date |-> <<>>, time |-> <<>>]

NoReq ==
    [op |-> "none", id |-> "", date |-> Undefined, now |-> Undefined,
     search |-> Undefined, location |-> Undefined, fail |-> "none",
     reservation |-> NoReservation]

\* no response has been sent
NoRes ==
    [status |-> 0, error |-> "", hasSlots |-> FALSE, timeSlots |-> <<>>,
     barberId |-> "", barbers |-> <<>>, reservations |-> <<>>]

\* res.status(status).json({ error })
ErrorRes(status, error) == [NoRes EXCEPT !.status = status, !.error = error]

\* the catch block of each handler
InternalError == ErrorRes(500, "Internal server error")

NoGen ==
    [called |-> FALSE, openTime |-> <<>>, closeTime |-> <<>>, durationMinutes |-> 0,
     existingReservations |-> <<>>]

GenCall(openTime, closeTime, durationMinutes, existingReservations) ==
    [called |-> TRUE, openTime |-> openTime, closeTime |-> closeTime,
     durationMinutes |-> durationMinutes, existingReservations |-> existingReservations]

\* res.json({ barber: {...}, date, timeSlots }) after the generator returned; when
\* the generator's loop never ends no response is sent
slotsResponse(barber, openTime, closeTime, durationMinutes, existingReservations) ==
    [gen |-> GenCall(openTime, closeTime, durationMinutes, existingReservations),
     res |-> IF diverges(openTime, closeTime, durationMinutes)
             THEN NoRes
             ELSE [NoRes EXCEPT !.status = 200, !.hasSlots = TRUE,
                                !.barberId = barber.id,
                                !.timeSlots = generateTimeSlots(openTime, closeTime,
                                                 durationMinutes, existingReservations)]]

noSlots(response) == [gen |-> NoGen, res |-> response]

----------------------------------------------------------------------------
(* Ordering of strings, for the ORDER BY clauses *)

Alphabet ==
    <<" ", "-", "0", "1", "2", "3", "4", "5", "6", "7", "8", "9", ":", "A", "B", "C", "D", "E", "F", "G", "H", "I", "J", "K", "L", "M", "N", "O", "P", "Q", "R", "S", "T", "U", "V", "W", "X", "Y", "Z", "a", "b", "c", "d", "e", "f", "g", "h", "i", "j", "k", "l", "m", "n", "o", "p", "q", "r", "s", "t", "u", "v", "w", "x", "y", "z">>

CharCode(ch) == CHOOSE i \in 1..Len(Alphabet) : Alphabet[i] = ch

RECURSIVE strLess(_, _)
strLess(s, t) ==
    IF t = <<>> THEN FALSE
    ELSE IF s = <<>> THEN TRUE
    ELSE IF CharCode(Head(s)) # CharCode(Head(t)) THEN CharCode(Head(s)) < CharCode(Head(t))
    ELSE strLess(Tail(s), Tail(t))

----------------------------------------------------------------------------
(* addDemoReservation / getDemoReservations *)

\* variant: unshift instead of push
addDemoReservation_prepend(reservation) == <<reservation>> \o demoReservations

addDemoReservation(reservation) == Append(demoReservations, reservation)

getDemoReservations == demoReservations

----------------------------------------------------------------------------
(* GET /barbers *)

barbersDemo(search, location) ==
    LET bySearch ==
            IF Falsy(search) THEN demoBarbers
            ELSE SelectSeq(demoBarbers,
                     LAMBDA b : includes(toLowerCase(b.fullName), toLowerCase(search)))
        byLocation ==
            IF Falsy(location) THEN bySearch
            ELSE SelectSeq(bySearch,
                     LAMBDA b : includes(toLowerCase(b.manualLocation), toLowerCase(location)))
    IN  [NoRes EXCEPT !.status = 200, !.barbers = [i \in 1..Len(byLocation) |-> byLocation[i].id]]

barbersDb(search, location, fail) ==
    IF fail # "none" THEN InternalError
    ELSE
    LET bySearch ==
            IF Falsy(search) THEN dbBarbers
            ELSE SelectSeq(dbBarbers, LAMBDA b : includes(b.fullName, search))
        byLocation ==
            IF Falsy(location) THEN bySearch
            ELSE SelectSeq(bySearch, LAMBDA b : includes(b.manualLocation, location))
        barbersList == SortSeq(byLocation, LAMBDA a, b : strLess(b.fullName, a.fullName))
    IN  [NoRes EXCEPT !.status = 200, !.barbers = [i \in 1..Len(barbersList) |-> barbersList[i].id]]

barbersHandler(search, location, fail) ==
    IF isDemoMode THEN barbersDemo(search, location) ELSE barbersDb(search, location, fail)

----------------------------------------------------------------------------
(* GET /barbers/:id/schedule *)

\* variant: the reservations are filtered by barber only
scheduleDemo_noDateFilter(id, date) ==
    LET found == SelectSeq(demoBarbers, LAMBDA b : b.id = id)
    IN  IF found = <<>>
        THEN noSlots(ErrorRes(404, "Barber not found"))
        ELSE LET barber == found[1]
                 existingReservations ==
                     SelectSeq(getDemoReservations, LAMBDA r : r.barberId = id)
             IN  slotsResponse(barber, barber.openTime, barber.closeTime,
                               barber.haircutDuration, existingReservations)

scheduleDemo(id, date) ==
    LET found == SelectSeq(demoBarbers, LAMBDA b : b.id = id)
    IN  IF found = <<>>
        THEN noSlots(ErrorRes(404, "Barber not found"))
        ELSE LET barber == found[1]
                 existingReservations ==
                     SelectSeq(getDemoReservations,
                         LAMBDA r : r.barberId = id /\ r.date = date)
             IN  slotsResponse(barber, barber.openTime, barber.closeTime,
                               barber.haircutDuration, existingReservations)

\* variant: a fixed 30-minute duration instead of the barber's haircutDuration
scheduleDb_fixedDuration(id, date, fail) ==
    IF fail = "barber" THEN noSlots(InternalError)
    ELSE
    LET barber == SelectSeq(dbBarbers, LAMBDA b : b.id = id)
    IN  IF Len(barber) = 0
        THEN noSlots(ErrorRes(404, "Barber not found"))
        ELSE IF fail = "reservations" THEN noSlots(InternalError)
        ELSE LET rows == SelectSeq(dbReservations,
                             LAMBDA r : r.barberId = id /\ r.date = date)
                 existingReservations == [i \in 1..Len(rows) |-> [time |-> rows[i].time]]
             IN  slotsResponse(barber[1], barber[1].openTime, barber[1].closeTime,
                               30, existingReservations)

\* variant: the reservation rows are not handed to the generator
scheduleDb_noReservations(id, date, fail) ==
    IF fail = "barber" THEN noSlots(InternalError)
    ELSE
    LET barber == SelectSeq(dbBarbers, LAMBDA b : b.id = id)
    IN  IF Len(barber) = 0
        THEN noSlots(ErrorRes(404, "Barber not found"))
        ELSE IF fail = "reservations" THEN noSlots(InternalError)
        ELSE LET rows == SelectSeq(dbReservations,
                             LAMBDA r : r.barberId = id /\ r.date = date)
                 existingReservations == [i \in 1..Len(rows) |-> [time |-> rows[i].time]]
             IN  slotsResponse(barber[1], barber[1].openTime, barber[1].closeTime,
                               barber[1].haircutDuration, <<>>)

\* variant: closeTime and openTime handed over in each other's place
scheduleDb_swappedWindow(id, date, fail) ==
    IF fail = "barber" THEN noSlots(InternalError)
    ELSE
    LET barber == SelectSeq(dbBarbers, LAMBDA b : b.id = id)
    IN  IF Len(barber) = 0
        THEN noSlots(ErrorRes(404, "Barber not found"))
        ELSE IF fail = "reservations" THEN noSlots(InternalError)
        ELSE LET rows == SelectSeq(dbReservations,
                             LAMBDA r : r.barberId = id /\ r.date = date)
                 existingReservations == [i \in 1..Len(rows) |-> [time |-> rows[i].time]]
             IN  slotsResponse(barber[1], barber[1].closeTime, barber[1].openTime,
                               barber[1].haircutDuration, existingReservations)

scheduleDb(id, date, fail) ==
    IF fail = "barber" THEN noSlots(InternalError)
    ELSE
    LET barber == SelectSeq(dbBarbers, LAMBDA b : b.id = id)
    IN  IF Len(barber) = 0
        THEN noSlots(ErrorRes(404, "Barber not found"))
        ELSE IF fail = "reservations" THEN noSlots(InternalError)
        ELSE LET rows == SelectSeq(dbReservations,
                             LAMBDA r : r.barberId = id /\ r.date = date)
                 existingReservations == [i \in 1..Len(rows) |-> [time |-> rows[i].time]]
             IN  slotsResponse(barber[1], barber[1].openTime, barber[1].closeTime,
                               barber[1].haircutDuration, existingReservations)

\* variant: the past-date check is left out
scheduleHandler_noPastCheck(id, date, now, fail) ==
    IF Falsy(date)
    THEN noSlots(ErrorRes(400, "Date parameter is required"))
    ELSE IF ~MatchesDatePattern(date)
    THEN noSlots(ErrorRes(400, "Invalid date format. Use YYYY-MM-DD"))
    ELSE IF isDemoMode THEN scheduleDemo(id, date)
    ELSE scheduleDb(id, date, fail)

\* variant: the past-date check rejects when isDateInPast answers false
scheduleHandler_negatedPast(id, date, now, fail) ==
    IF Falsy(date)
    THEN noSlots(ErrorRes(400, "Date parameter is required"))
    ELSE IF ~MatchesDatePattern(date)
    THEN noSlots(ErrorRes(400, "Invalid date format. Use YYYY-MM-DD"))
    ELSE IF ~isDateInPast(date, now)
    THEN noSlots(ErrorRes(400, "Cannot view schedule for past dates"))
    ELSE IF isDemoMode THEN scheduleDemo(id, date)
    ELSE scheduleDb(id, date, fail)

\* variant: the format is validated before the parameter's presence is tested
scheduleHandler_patternFirst(id, date, now, fail) ==
    IF ~MatchesDatePattern(date)
    THEN noSlots(ErrorRes(400, "Invalid date format. Use YYYY-MM-DD"))
    ELSE IF Falsy(date)
    THEN noSlots(ErrorRes(400, "Date parameter is required"))
    ELSE IF isDateInPast(date, now)
    THEN noSlots(ErrorRes(400, "Cannot view schedule for past dates"))
    ELSE IF isDemoMode THEN scheduleDemo(id, date)
    ELSE scheduleDb(id, date, fail)

scheduleHandler(id, date, now, fail) ==
    IF Falsy(date)
    THEN noSlots(ErrorRes(400, "Date parameter is required"))
    ELSE IF ~MatchesDatePattern(date)
    THEN noSlots(ErrorRes(400, "Invalid date format. Use YYYY-MM-DD"))
    ELSE IF isDateInPast(date, now)
    THEN noSlots(ErrorRes(400, "Cannot view schedule for past dates"))
    ELSE IF isDemoMode THEN scheduleDemo(id, date)
    ELSE scheduleDb(id, date, fail)

----------------------------------------------------------------------------
(* GET /barbers/:id/reservations *)

reservationsDemo(id, date) ==
    LET byBarber == SelectSeq(getDemoReservations, LAMBDA r : r.barberId = id)
    IN  IF ~Falsy(date) /\ ~MatchesDatePattern(date)
        THEN ErrorRes(400, "Invalid date format. Use YYYY-MM-DD")
        ELSE LET filtered == IF Falsy(date) THEN byBarber
                             ELSE SelectSeq(byBarber, LAMBDA r : r.date = date)
             IN  [NoRes EXCEPT !.status = 200,
                     !.reservations = [i \in 1..Len(filtered) |->
                         [id |-> filtered[i].id, date |-> filtered[i].date,
                          time |-> filtered[i].time]]]

reservationsDb(id, date, fail) ==
    IF ~Falsy(date) /\ ~MatchesDatePattern(date)
    THEN ErrorRes(400, "Invalid date format. Use YYYY-MM-DD")
    ELSE IF fail # "none" THEN InternalError
    ELSE
    LET byBarber == SelectSeq(dbReservations, LAMBDA r : r.barberId = id)
        filtered == IF Falsy(date) THEN byBarber
                    ELSE SelectSeq(byBarber, LAMBDA r : r.date = date)
        reservationsList ==
            SortSeq(filtered, LAMBDA a, b :
                strLess(a.date, b.date) \/ (a.date = b.date /\ strLess(a.time, b.time)))
    IN  [NoRes EXCEPT !.status = 200,
            !.reservations = [i \in 1..Len(reservationsList) |->
                [id |-> reservationsList[i].id, date |-> reservationsList[i].date,
                 time |-> reservationsList[i].time]]]

reservationsHandler(id, date, fail) ==
    IF isDemoMode THEN reservationsDemo(id, date) ELSE reservationsDb(id, date, fail)

----------------------------------------------------------------------------
(* Inputs *)

Fails == {"none", "barber", "reservations"}

Ids == {"barber-1", "barber-2", "db-1", "nobody"}

\* the ids of DateSpec's requests
WideIds == {"barber-1", "db-1", "db-2", "db-3", "nobody"}

\* '2024-1-15' is not a date; undefined is a missing parameter
Dates == {Undefined, <<"2", "0", "2", "4", "-", "1", "-", "1", "5">>, DateLit(2024, 1, 15), DateLit(2024, 1, 16)}

Nows == {DateLit(2024, 1, 15), DateLit(2024, 1, 16)}

Searches == {Undefined, <<"S", "M", "I", "T", "H">>, <<"j", "o", "h", "n">>}

Locations == {Undefined, <<"u", "p", "t", "o", "w", "n">>}

\* the reservations reservations.js may hand to addDemoReservation
NewReservations ==
    { [id |-> "res-new", barberId |-> "barber-1", clientId |-> "user-9",
       date |-> DateLit(2024, 1, 15), time |-> TimeLit(9, 30)],
      [id |-> "res-new", barberId |-> "barber-1", clientId |-> "user-9",
       date |-> DateLit(2024, 1, 16), time |-> TimeLit(9, 30)],
      [id |-> "res-new", barberId |-> "barber-2", clientId |-> "user-9",
       date |-> DateLit(2024, 1, 15), time |-> TimeLit(9, 30)] }

\* inputs of DateSpec: more days, across a month's and a year's end
WideDates ==
    {Undefined, <<>>, <<"2", "0", "2", "4", "-", "1", "-", "1", "5">>, <<"2", "0", "2", "4", "/", "0", "1", "/", "1", "5">>, <<"2", "0", "2", "4", "-", "0", "1", "-", "1", "5", "T">>, <<"2", "4", "-", "0", "1", "-", "1", "5">>,
     DateLit(2023, 12, 31), DateLit(2024, 1, 15), DateLit(2024, 1, 16),
     DateLit(2024, 1, 31), DateLit(2024, 2, 1)}

WideNows ==
    {DateLit(2023, 12, 31), DateLit(2024, 1, 15), DateLit(2024, 1, 16),
     DateLit(2024, 1, 31), DateLit(2024, 2, 1)}

\* contents of the store under DbSpec: one barber with any window and duration,
\* and any short list of reservation rows for that barber and day
WindowTimes == {TimeLit(9, 0), TimeLit(10, 0), TimeLit(12, 0), TimeLit(18, 0)}

Durations == {-30, 0, 30, 45, 60}

\* '9:00' and '10:20' start no slot of any of the windows above
Markers == {TimeLit(10, 0), TimeLit(10, 45), <<"9", ":", "0", "0">>, TimeLit(10, 20)}

DbBarberRows ==
    { [id |-> "db-1", userId |-> "u-1", fullName |-> <<"A", "n", "n">>,
       manualLocation |-> <<"U", "p", "t", "o", "w", "n">>,
       haircutDuration |-> d, openTime |-> o, closeTime |-> c] :
          o \in WindowTimes, c \in WindowTimes, d \in Durations }

DbReservationLists ==
    UNION { [1..k -> { [id |-> "r", barberId |-> "db-1", date |-> DateLit(2024, 1, 16),
                        time |-> m] : m \in Markers }] : k \in 0..MaxMarkers }

----------------------------------------------------------------------------
(* The state machine *)

Init ==
    /\ isDemoMode \in BOOLEAN
    /\ demoBarbers = DemoBarbersFixture
    /\ demoReservations = DemoReservationsFixture
    /\ dbBarbers = IF isDemoMode THEN <<>> ELSE DbBarbersSeed
    /\ dbReservations = IF isDemoMode THEN <<>> ELSE DbReservationsSeed
    /\ req = NoReq
    /\ res = NoRes
    /\ gen = NoGen

InitDb ==
    /\ isDemoMode = FALSE
    /\ demoBarbers = DemoBarbersFixture
    /\ demoReservations = DemoReservationsFixture
    /\ dbBarbers \in { <<row>> : row \in DbBarberRows }
    /\ dbReservations \in DbReservationLists
    /\ req = NoReq
    /\ res = NoRes
    /\ gen = NoGen

AddDemoReservation ==
    \E reservation \in NewReservations :
        /\ Len(demoReservations) < Len(DemoReservationsFixture) + MaxAdded
        /\ demoReservations' = addDemoReservation(reservation)
        /\ req' = [NoReq EXCEPT !.op = "add", !.reservation = reservation]
        /\ res' = NoRes
        /\ gen' = NoGen
        /\ UNCHANGED <<isDemoMode, demoBarbers, dbBarbers, dbReservations>>

GetBarbers ==
    \E search \in Searches, location \in Locations,
       fail \in (IF isDemoMode THEN {"none"} ELSE {"none", "barber"}) :
        /\ req' = [NoReq EXCEPT !.op = "barbers", !.search = search,
                                !.location = location, !.fail = fail]
        /\ res' = barbersHandler(search, location, fail)
        /\ gen' = NoGen
        /\ UNCHANGED <<isDemoMode, demoBarbers, demoReservations, dbBarbers, dbReservations>>

scheduleRequest(id, date, now, fail) ==
    \E out \in {scheduleHandler(id, date, now, fail)} :
        /\ req' = [NoReq EXCEPT !.op = "schedule", !.id = id, !.date = date,
                                !.now = now, !.fail = fail]
        /\ res' = out.res
        /\ gen' = out.gen
        /\ UNCHANGED <<isDemoMode, demoBarbers, demoReservations, dbBarbers, dbReservations>>

GetSchedule ==
    \E id \in Ids, date \in Dates, now \in Nows,
       fail \in (IF isDemoMode THEN {"none"} ELSE Fails) :
        scheduleRequest(id, date, now, fail)

GetScheduleWide ==
    \E id \in WideIds, date \in WideDates, now \in WideNows,
       fail \in (IF isDemoMode THEN {"none"} ELSE {"none", "barber"}) :
        scheduleRequest(id, date, now, fail)

GetScheduleDb ==
    \E id \in {"db-1", "nobody"}, date \in {DateLit(2024, 1, 16)},
       now \in {DateLit(2024, 1, 15)}, fail \in {"none"} :
        scheduleRequest(id, date, now, fail)

GetReservations ==
    \E id \in Ids, date \in Dates,
       fail \in (IF isDemoMode THEN {"none"} ELSE {"none", "reservations"}) :
        /\ req' = [NoReq EXCEPT !.op = "reservations", !.id = id, !.date = date,
                                !.fail = fail]
        /\ res' = reservationsHandler(id, date, fail)
        /\ gen' = NoGen
        /\ UNCHANGED <<isDemoMode, demoBarbers, demoReservations, dbBarbers, dbReservations>>

Next == AddDemoReservation \/ GetBarbers \/ GetSchedule \/ GetReservations

Spec == Init /\ [][Next]_vars

\* the schedule handler over a wider range of dates and current days
NextDate == GetScheduleWide

DateSpec == Init /\ [][NextDate]_vars

\* the schedule handler in database mode over the contents the store may hold
NextDb == GetScheduleDb

DbSpec == InitDb /\ [][NextDb]_vars

----------------------------------------------------------------------------
(* Properties *)

\* the request's date is a well-formed date earlier than the current day
RequestedPast ==
    /\ ~Falsy(req.date)
    /\ MatchesDatePattern(req.date)
    /\ parseDate(req.date) < parseDate(req.now)

\* the request's date passes all three date checks
RequestedDateAccepted ==
    /\ ~Falsy(req.date)
    /\ MatchesDatePattern(req.date)
    /\ ~(parseDate(req.date) < parseDate(req.now))

\* the request's id is the id of no barber of the mode's data
RequestedBarberUnknown ==
    IF isDemoMode
    THEN \A i \in 1..Len(demoBarbers) : demoBarbers[i].id # req.id
    ELSE \A i \in 1..Len(dbBarbers) : dbBarbers[i].id # req.id

SlotTimes(slots) == [i \in 1..Len(slots) |-> slots[i].time]

Unavailable(slots) == {i \in 1..Len(slots) : ~slots[i].available}

\* C1: for a stored window (openTime, closeTime) and a positive duration d the
\* schedule response holds the slots starting at openTime, openTime+d, ... in
\* ascending order, one for every k with openTime + k*d + d <= closeTime and no
\* other; 09:00-18:00 with d=30 gives 18 slots from 09:00 to 17:30 and
\* 10:00-12:00 with d=45 gives exactly 10:00 and 10:45.
C1_SlotsTileWindow ==
    (req.op = "schedule" /\ req.id = "db-1" /\ dbBarbers[1].haircutDuration > 0) =>
        LET o == parseTime(dbBarbers[1].openTime)
            c == parseTime(dbBarbers[1].closeTime)
            d == dbBarbers[1].haircutDuration
            slots == res.timeSlots
            n == Len(slots)
        IN  /\ res.status = 200 /\ res.hasSlots
            /\ \A i \in 1..n :
                   /\ slots[i].time = formatTime(o + (i - 1) * d)
                   /\ o + (i - 1) * d + d <= c
            /\ o + n * d + d > c
            /\ (dbBarbers[1].openTime = <<"0", "9", ":", "0", "0">> /\ dbBarbers[1].closeTime = <<"1", "8", ":", "0", "0">> /\ d = 30)
                   => (n = 18 /\ slots[1].time = <<"0", "9", ":", "0", "0">> /\ slots[18].time = <<"1", "7", ":", "3", "0">>)
            /\ (dbBarbers[1].openTime = <<"1", "0", ":", "0", "0">> /\ dbBarbers[1].closeTime = <<"1", "2", ":", "0", "0">> /\ d = 45)
                   => SlotTimes(slots) = << <<"1", "0", ":", "0", "0">>, <<"1", "0", ":", "4", "5">> >>

C1_Witness ==
    /\ req.op = "schedule" /\ req.id = "db-1"
    /\ dbBarbers[1].openTime = <<"1", "0", ":", "0", "0">> /\ dbBarbers[1].closeTime = <<"1", "2", ":", "0", "0">>
    /\ dbBarbers[1].haircutDuration = 45
    /\ SlotTimes(res.timeSlots) = << <<"1", "0", ":", "0", "0">>, <<"1", "0", ":", "4", "5">> >>

\* C2: a slot of the response is unavailable exactly when its HH:MM start time
\* equals the time of at least one reservation row of that barber and date;
\* repeated rows for one time mark that slot once and a row whose time starts no
\* slot changes no slot.
C2_UnavailableIffReserved ==
    (req.op = "schedule" /\ res.hasSlots) =>
        \A i \in 1..Len(res.timeSlots) :
            res.timeSlots[i].available =
                ~(\E j \in 1..Len(dbReservations) :
                      /\ dbReservations[j].barberId = req.id
                      /\ dbReservations[j].date = req.date
                      /\ dbReservations[j].time = res.timeSlots[i].time)

C2_Witness ==
    /\ req.op = "schedule" /\ res.hasSlots
    /\ Len(dbReservations) = 2
    /\ dbReservations[1].time = <<"1", "0", ":", "0", "0">> /\ dbReservations[2].time = <<"1", "0", ":", "0", "0">>
    /\ Len(res.timeSlots) > 1
    /\ \E i \in 1..Len(res.timeSlots) :
           /\ res.timeSlots[i].time = <<"1", "0", ":", "0", "0">>
           /\ Unavailable(res.timeSlots) = {i}

\* C3: a schedule request whose date is missing, malformed or past is answered
\* with an error and no timeSlots and without a call of generateTimeSlots; a
\* response holds timeSlots only as the whole output of the generator, never
\* next to an error.
C3_DateErrorsBeforeGenerator ==
    req.op = "schedule" =>
        /\ (Falsy(req.date) \/ ~MatchesDatePattern(req.date) \/ RequestedPast) =>
               /\ res.status = 400 /\ res.error # ""
               /\ ~res.hasSlots /\ res.timeSlots = <<>>
               /\ ~gen.called
        /\ res.hasSlots =>
               /\ res.status = 200 /\ res.error = ""
               /\ gen.called
               /\ res.timeSlots = generateTimeSlots(gen.openTime, gen.closeTime,
                                      gen.durationMinutes, gen.existingReservations)
        /\ res.error # "" => (~res.hasSlots /\ res.timeSlots = <<>>)

C3_Witness ==
    /\ req.op = "schedule"
    /\ req.date = <<"2", "0", "2", "4", "/", "0", "1", "/", "1", "5">>
    /\ req.id = "barber-1"
    /\ res.status = 400 /\ res.error = "Invalid date format. Use YYYY-MM-DD"
    /\ ~gen.called

\* C4: no schedule request makes the handler call generateTimeSlots with a
\* duration <= 0 or with openTime >= closeTime; such a barber record is answered
\* with an error.
C4_InvalidConfigurationRejected ==
    (req.op = "schedule" /\ gen.called) =>
        /\ gen.durationMinutes > 0
        /\ parseTime(gen.openTime) < parseTime(gen.closeTime)

\* the days of the requests in chronological order
Calendar ==
    << <<"2", "0", "2", "3", "-", "1", "2", "-", "3", "1">>, <<"2", "0", "2", "4", "-", "0", "1", "-", "1", "5">>, <<"2", "0", "2", "4", "-", "0", "1", "-", "1", "6">>, <<"2", "0", "2", "4", "-", "0", "1", "-", "3", "1">>, <<"2", "0", "2", "4", "-", "0", "2", "-", "0", "1">> >>

DayRank(day) == CHOOSE i \in 1..Len(Calendar) : Calendar[i] = day

\* C5: for a well-formed date D and current day T the request is rejected as a
\* past date exactly when D is strictly earlier than T: today and later days are
\* never rejected, earlier days always are.
C5_PastIffStrictlyEarlier ==
    (req.op = "schedule" /\ ~Falsy(req.date) /\ MatchesDatePattern(req.date)) =>
        /\ isDateInPast(req.date, req.now) = (DayRank(req.date) < DayRank(req.now))
        /\ (res.status = 400 /\ res.error = "Cannot view schedule for past dates")
               = (DayRank(req.date) < DayRank(req.now))
        /\ DayRank(req.date) >= DayRank(req.now) =>
               res.error # "Cannot view schedule for past dates"

C5_Witness ==
    /\ req.op = "schedule"
    /\ req.date = <<"2", "0", "2", "4", "-", "0", "2", "-", "0", "1">> /\ req.now = <<"2", "0", "2", "4", "-", "0", "2", "-", "0", "1">>
    /\ res.status = 200 /\ res.hasSlots

\* C6: for a stored window with openTime >= closeTime, a positive duration and
\* any reservation rows, the response's slot sequence is empty.
C6_EmptyWindow ==
    (/\ req.op = "schedule" /\ req.id = "db-1"
     /\ dbBarbers[1].haircutDuration > 0
     /\ parseTime(dbBarbers[1].openTime) >= parseTime(dbBarbers[1].closeTime)) =>
        /\ res.status = 200 /\ res.hasSlots
        /\ res.timeSlots = <<>>

C6_Witness ==
    /\ req.op = "schedule" /\ req.id = "db-1"
    /\ dbBarbers[1].openTime = <<"1", "2", ":", "0", "0">> /\ dbBarbers[1].closeTime = <<"1", "0", ":", "0", "0">>
    /\ dbBarbers[1].haircutDuration = 30
    /\ Len(dbReservations) = 2
    /\ res.status = 200 /\ res.hasSlots /\ res.timeSlots = <<>>

\* the date checks come first and in the order missing, malformed, past
DateErrorsInOrder ==
    /\ Falsy(req.date) =>
           (res.status = 400 /\ res.error = "Date parameter is required")
    /\ (~Falsy(req.date) /\ ~MatchesDatePattern(req.date)) =>
           (res.status = 400 /\ res.error = "Invalid date format. Use YYYY-MM-DD")
    /\ RequestedPast =>
           (res.status = 400 /\ res.error = "Cannot view schedule for past dates")

\* C8 as stated: the first failing check of missing date, malformed date, past
\* date, barber not found is the one reported; an accepted date with an id of no
\* barber is answered 404 'Barber not found' with no timeSlots and no call of
\* generateTimeSlots, in demo and in database mode.
C8_UnknownBarberAlways404 ==
    req.op = "schedule" =>
        /\ DateErrorsInOrder
        /\ (RequestedDateAccepted /\ RequestedBarberUnknown) =>
               /\ res.status = 404 /\ res.error = "Barber not found"
               /\ ~res.hasSlots /\ ~gen.called

\* C8 amended: as above, except that in database mode a barber query that throws
\* is answered 500 'Internal server error' (still no timeSlots, no generator
\* call); in every other case the answer is 404 'Barber not found'.
C8_UnknownBarber404UnlessQueryThrows ==
    req.op = "schedule" =>
        /\ DateErrorsInOrder
        /\ (RequestedDateAccepted /\ RequestedBarberUnknown) =>
               /\ ~res.hasSlots /\ ~gen.called
               /\ IF ~isDemoMode /\ req.fail = "barber"
                  THEN res.status = 500 /\ res.error = "Internal server error"
                  ELSE res.status = 404 /\ res.error = "Barber not found"

C8_Witness ==
    /\ req.op = "schedule" /\ req.id = "nobody"
    /\ ~isDemoMode /\ req.fail = "none"
    /\ RequestedDateAccepted
    /\ res.status = 404 /\ res.error = "Barber not found"

\* C9: in demo mode a successful schedule response for barber b and date d marks
\* a slot unavailable exactly when demoReservations holds an entry with that
\* barberId, that date and the slot's start time; entries of other barbers or
\* dates change nothing and every entry added for (b, d) shows.
C9_DemoScheduleReflectsReservations ==
    (isDemoMode /\ req.op = "schedule" /\ res.status = 200) =>
        /\ res.hasSlots
        /\ \A i \in 1..Len(res.timeSlots) :
               res.timeSlots[i].available =
                   ~(\E j \in 1..Len(demoReservations) :
                         /\ demoReservations[j].barberId = req.id
                         /\ demoReservations[j].date = req.date
                         /\ demoReservations[j].time = res.timeSlots[i].time)

C9_Witness ==
    /\ isDemoMode /\ req.op = "schedule" /\ res.status = 200
    /\ req.id = "barber-1" /\ req.date = <<"2", "0", "2", "4", "-", "0", "1", "-", "1", "6">>
    /\ Len(demoReservations) = 4
    /\ demoReservations[3].barberId = "barber-2"
    /\ demoReservations[4].barberId = "barber-1" /\ demoReservations[4].date = <<"2", "0", "2", "4", "-", "0", "1", "-", "1", "6">>
    /\ \E i \in 1..Len(res.timeSlots) :
           /\ res.timeSlots[i].time = <<"0", "9", ":", "3", "0">>
           /\ Unavailable(res.timeSlots) = {i}

\* C10: addDemoReservation adds its argument as the last entry and leaves the
\* entries before it as they were; the three GET handlers change neither
\* demoReservations nor demoBarbers; the list never gets shorter.
C10_DemoDataAppendOnly ==
    [][ /\ demoBarbers' = demoBarbers
        /\ Len(demoReservations') >= Len(demoReservations)
        /\ req'.op \in {"barbers", "schedule", "reservations"} =>
               demoReservations' = demoReservations
        /\ req'.op = "add" =>
               /\ Len(demoReservations') = Len(demoReservations) + 1
               /\ SubSeq(demoReservations', 1, Len(demoReservations)) = demoReservations
               /\ demoReservations'[Len(demoReservations')] = req'.reservation ]_vars

C10_Witness ==
    /\ req.op = "reservations"
    /\ res.status = 400
    /\ Len(demoReservations) = 4
    /\ SubSeq(demoReservations, 1, 2) = DemoReservationsFixture
    /\ demoBarbers = DemoBarbersFixture

====
